---------------------------- MODULE Spec2Model ----------------------------
(***************************************************************************)
(* A model of utils/masking.py of BERTDNAMLM: the vocabulary, the masking  *)
(* engine, the batch collator, the cache decorator around data_process,    *)
(* and the evaluation loop.                                                *)
(*                                                                         *)
(* Conventions.  Python indices are 0-based; a Python list is a TLA+       *)
(* sequence whose element i+1 is the list's element i (operator At).       *)
(* A rate (masked_rate, ...) is an integer number of hundredths.           *)
(* A text is a sequence of chunks: a chunk is a newline or a piece of text *)
(* holding none ("A", "[UNK]"); a symbol of the vocabulary is a sequence   *)
(* of chunks.  Python's None is NoneIdx where an index is expected.        *)
(***************************************************************************)
EXTENDS Integers, Sequences, FiniteSets, TLC

VARIABLES
    vocab_file,     \* the content of the file at vocab_path
    loaders,        \* the LoadDNADataset instances constructed so far
    rng,            \* the state of the process-wide generator of `random`
    lookup,         \* the last Vocab.__getitem__ / __len__ call and its result
    sample,         \* the last get_masked_sample call and its result
    batch,          \* the last generate_batch call and its result
    disk,           \* the cache artifacts on disk, by data_path
    call,           \* the last data_process call and its outcome
    ev,             \* the evaluate() call in progress
    pc,             \* per process: its place in cache.wrapper
    cfile,          \* the one cache file the racing processes share
    seen            \* per process: what it loaded or returned

vars == <<vocab_file, loaders, rng, lookup, sample, batch, disk, call, ev, pc, cfile, seen>>

-----------------------------------------------------------------------------
(* Bounds of the model *)

MaxFileLen == 4
MaxLoaders == 1
MaxSeqLen == 2
RandDen == 2
MaxBatch == 2
MaxBatchSeqLen == 2
MaxFixedLen == 1
MaxPosEmb == 2
MaxBatches == 2
BatchTokens == 2
EvalVocabSize == 7
NumProcs == 3

(* The ids below NumSpecial are special tokens: roc_auc drops them *)
NumSpecial == 5

(* Python's None, where an index is expected *)
NoneIdx == -1

At(s, i) == s[i + 1]

Min(a, b) == IF a < b THEN a ELSE b

Max(a, b) == IF a > b THEN a ELSE b

NL == "\n"

UNK == <<"[UNK]">>

Chunks == {"[UNK]", "[CLS]", "[SEP]", "[MASK]", "A", NL}

RECURSIVE SeqsUpTo(_, _)
SeqsUpTo(S, n) ==
    IF n = 0 THEN {<<>>}
    ELSE LET shorter == SeqsUpTo(S, n - 1)
         IN  shorter \cup {Append(s, x) : s \in {t \in shorter : Len(t) = n - 1}, x \in S}

-----------------------------------------------------------------------------
(* Vocab *)

(* Iterating a text file: each line runs to its newline, which it keeps;   *)
(* the last line may have none.                                            *)
RECURSIVE FileLines(_, _, _)
FileLines(content, i, cur) ==
    IF i > Len(content) THEN (IF cur = <<>> THEN <<>> ELSE <<cur>>)
    ELSE IF content[i] = NL THEN <<Append(cur, NL)>> \o FileLines(content, i + 1, <<>>)
    ELSE FileLines(content, i + 1, Append(cur, content[i]))

(* str.strip('\n'): the newlines at both ends removed *)
RECURSIVE StripNL(_)
StripNL(word) ==
    IF word = <<>> THEN <<>>
    ELSE IF Head(word) = NL THEN StripNL(Tail(word))
    ELSE IF word[Len(word)] = NL THEN StripNL(SubSeq(word, 1, Len(word) - 1))
    ELSE word

(* One pass of the loop of Vocab.__init__ keeps the first index of a word  *)
(* (a variant of the loop below).                                          *)
RECURSIVE VocabInitFirstWins(_, _, _)
VocabInitFirstWins(lines, i, v) ==
    IF i >= Len(lines) THEN v
    ELSE LET w == StripNL(At(lines, i))
         IN  VocabInitFirstWins(lines, i + 1,
                 [stoi |-> v.stoi @@ (w :> i), itos |-> Append(v.itos, w)])

(* Vocab.__init__: stoi[w] = i and itos.append(w), line by line *)
RECURSIVE VocabInit(_, _, _)
VocabInit(lines, i, v) ==
    IF i >= Len(lines) THEN v
    ELSE LET w == StripNL(At(lines, i))
         IN  VocabInit(lines, i + 1,
                 [stoi |-> (w :> i) @@ v.stoi, itos |-> Append(v.itos, w)])

build_vocab(content) == VocabInit(FileLines(content, 1, <<>>), 0, [stoi |-> <<>>, itos |-> <<>>])

(* dict.get(key, default) *)
DictGet(d, key, default) == IF key \in DOMAIN d THEN d[key] ELSE default

(* Vocab.__getitem__ *)
GetItem(v, token) == DictGet(v.stoi, token, DictGet(v.stoi, UNK, NoneIdx))

(* Vocab.__len__ *)
VocabLen(v) == Len(v.itos)

-----------------------------------------------------------------------------
(* The random module: one process-wide generator.  The Mersenne Twister is *)
(* stood for by a small linear congruential generator: what matters is     *)
(* that a draw is a function of the seed and of the draws made since.      *)

RngMod == 4

Seed(random_state) == random_state % RngMod

RngNext(s) == (5 * s + 3) % RngMod

(* random.random(), in units of 1/RandDen *)
RandomOf(s) == (s * RandDen) \div RngMod

(* random.randint(a, b) *)
RandintOf(s, a, b) == a + (s % (b - a + 1))

(* The swaps of random.shuffle(x): for i from len(x)-1 down to 1, swap     *)
(* x[i] and x[j] with j = js[n] drawn in 0..i.                             *)
RECURSIVE ShuffleWith(_, _, _, _)
ShuffleWith(x, i, js, n) ==
    IF i < 1 THEN x
    ELSE LET j == js[n]
             y == [x EXCEPT ![i + 1] = At(x, j), ![j + 1] = At(x, i)]
         IN  ShuffleWith(y, i - 1, js, n + 1)

(* The draws j of random.shuffle for a list of length n, each in its range *)
ShuffleDraws(n) ==
    IF n < 2 THEN {<<>>}
    ELSE {js \in [1..(n - 1) -> 0..(n - 1)] : \A k \in 1..(n - 1) : js[k] <= n - k}

(* The draws random.shuffle makes from generator state s: <<js, s'>> *)
RECURSIVE ShuffleFromRng(_, _, _)
ShuffleFromRng(i, s, js) ==
    IF i < 1 THEN <<js, s>>
    ELSE LET s1 == RngNext(s)
         IN  ShuffleFromRng(i - 1, s1, Append(js, RandintOf(s1, 0, i)))

-----------------------------------------------------------------------------
(* LoadDNADataset *)

NoneLen == [kind |-> "None", n |-> 0]

IntLen(n) == [kind |-> "int", n |-> n]

SameLen == [kind |-> "same", n |-> 0]

(* LoadDNADataset.__init__ *)
NewLoader(content, p) ==
    LET v == build_vocab(content)
    IN  [vocab |-> v,
         PAD_IDX |-> p.pad_index,
         SEP_IDX |-> GetItem(v, <<"[SEP]">>),
         CLS_IDX |-> GetItem(v, <<"[CLS]">>),
         MASK_IDS |-> GetItem(v, <<"[MASK]">>),
         max_sen_len |-> p.max_sen_len,
         max_position_embeddings |-> p.max_position_embeddings,
         masked_rate |-> p.masked_rate,
         masked_token_rate |-> p.masked_token_rate,
         masked_token_unchanged_rate |-> p.masked_token_unchanged_rate,
         random_state |-> p.random_state,
         inital_site |-> p.inital_site,
         number_of_group |-> p.number_of_group]

(* round(n * rate) of Python 3, the rate in hundredths: to the nearest     *)
(* integer, a tie to the even one.                                         *)
PyRound(n, rate) ==
    LET q == (n * rate) \div 100
        r == (n * rate) % 100
    IN  IF 2 * r < 100 THEN q
        ELSE IF 2 * r > 100 THEN q + 1
        ELSE IF q % 2 = 0 THEN q ELSE q + 1

(* rand_t < self.masked_token_rate *)
DrawsMask(self, d) == d.rand_t * 100 < self.masked_token_rate * RandDen

(* random.random() > self.masked_token_unchanged_rate *)
DrawsRandomToken(self, d) == d.rand_u * 100 > self.masked_token_unchanged_rate * RandDen

(* The loop of replace_masked_tokens over the candidates from the c-th on. *)
(* draws[n] holds what the random calls return at the n-th committed       *)
(* position.                                                               *)
RECURSIVE ReplaceLoop(_, _, _, _, _, _, _, _)
ReplaceLoop(self, token_ids, cand, num_mlm_preds, draws, c, pred_positions, mlm_input_tokens_id) ==
    IF c > Len(cand) \/ Len(pred_positions) >= num_mlm_preds
    THEN [pred_positions |-> pred_positions, mlm_input_tokens_id |-> mlm_input_tokens_id]
    ELSE LET mlm_pred_position == cand[c]
             d == draws[Len(pred_positions) + 1]
             masked_token_id ==
                 IF DrawsMask(self, d) THEN self.MASK_IDS
                 ELSE IF DrawsRandomToken(self, d) THEN d.rand_id
                 ELSE At(token_ids, mlm_pred_position)
         IN  ReplaceLoop(self, token_ids, cand, num_mlm_preds, draws, c + 1,
                         Append(pred_positions, mlm_pred_position),
                         [mlm_input_tokens_id EXCEPT ![mlm_pred_position + 1] = masked_token_id])

InSeq(x, s) == \E k \in 1..Len(s) : s[k] = x

(* The label list with its condition inverted (a variant of the one below) *)
MlmLabelInverted(self, token_ids, pred_positions) ==
    [k \in 1..Len(token_ids) |->
        IF InSeq(k - 1, pred_positions) THEN self.PAD_IDX ELSE token_ids[k]]

(* The label list of replace_masked_tokens *)
MlmLabel(self, token_ids, pred_positions) ==
    [k \in 1..Len(token_ids) |->
        IF ~InSeq(k - 1, pred_positions) THEN self.PAD_IDX ELSE token_ids[k]]

(* replace_masked_tokens *)
replace_masked_tokens(self, token_ids, candidate_pred_positions, num_mlm_preds, draws) ==
    LET r == ReplaceLoop(self, token_ids, candidate_pred_positions, num_mlm_preds,
                         draws, 1, <<>>, token_ids)
    IN  [mlm_input_tokens_id |-> r.mlm_input_tokens_id,
         mlm_label |-> MlmLabel(self, token_ids, r.pred_positions),
         pred_positions |-> r.pred_positions]

(* The candidate positions of get_masked_sample, in index order *)
RECURSIVE Candidates(_, _, _)
Candidates(self, token_ids, i) ==
    IF i >= Len(token_ids) THEN <<>>
    ELSE IF At(token_ids, i) \in {self.CLS_IDX, self.SEP_IDX} THEN Candidates(self, token_ids, i + 1)
    ELSE <<i>> \o Candidates(self, token_ids, i + 1)

(* num_mlm_preds rounded down (a variant of the one below) *)
NumMlmPredsFloor(self, token_ids) == Max(1, (Len(token_ids) * self.masked_rate) \div 100)

NumMlmPreds(self, token_ids) == Max(1, PyRound(Len(token_ids), self.masked_rate))

(* get_masked_sample, given the draws of its shuffle and of its walk *)
get_masked_sample(self, token_ids, js, draws) ==
    LET cand == Candidates(self, token_ids, 0)
        candidate_pred_positions == ShuffleWith(cand, Len(cand) - 1, js, 1)
    IN  replace_masked_tokens(self, token_ids, candidate_pred_positions,
                              NumMlmPreds(self, token_ids), draws)

-----------------------------------------------------------------------------
(* pad_sequence and generate_batch *)

(* A 2-d tensor: its shape and its entries, v[i][j] for i, j from 1 *)
Tensor(rows, cols, v) == [rows |-> rows, cols |-> cols, v |-> v]

RECURSIVE MaxSize(_)
MaxSize(sequences) ==
    IF Len(sequences) = 1 THEN Len(Head(sequences))
    ELSE Max(Len(Head(sequences)), MaxSize(Tail(sequences)))

(* [padding_value] * n *)
Repeat(x, n) == [k \in 1..n |-> x]

(* The loop body of pad_sequence truncates from the wrong end (a variant   *)
(* of the one below).                                                      *)
PadOneKeepsTail(tensor, max_len, padding_value) ==
    IF Len(tensor) < max_len
    THEN tensor \o Repeat(padding_value, max_len - Len(tensor))
    ELSE SubSeq(tensor, Len(tensor) - max_len + 1, Len(tensor))

(* The loop body of pad_sequence: one tensor padded or cut to max_len *)
PadOne(tensor, max_len, padding_value) ==
    IF Len(tensor) < max_len
    THEN tensor \o Repeat(padding_value, max_len - Len(tensor))
    ELSE SubSeq(tensor, 1, max_len)

(* pad_sequence with batch_first=False, max_len None or an integer >= 0:   *)
(* torch.stack(out_tensors, dim=1) has shape [max_len, len(sequences)].    *)
pad_sequence(sequences, max_sen_len, padding_value) ==
    LET max_len == IF max_sen_len.kind = "None" THEN MaxSize(sequences) ELSE max_sen_len.n
        out_tensors == [b \in 1..Len(sequences) |-> PadOne(sequences[b], max_len, padding_value)]
    IN  Tensor(max_len, Len(sequences),
               [t \in 1..max_len |-> [b \in 1..Len(sequences) |-> out_tensors[b][t]]])

(* generate_batch *)
generate_batch(self, data_batch) ==
    LET tok == pad_sequence([b \in 1..Len(data_batch) |-> data_batch[b][1]],
                            self.max_sen_len, self.PAD_IDX)
        lab == pad_sequence([b \in 1..Len(data_batch) |-> data_batch[b][2]],
                            self.max_sen_len, self.PAD_IDX)
    IN  [b_token_ids |-> tok,
         b_mask |-> Tensor(tok.cols, tok.rows,
                           [b \in 1..tok.cols |-> [t \in 1..tok.rows |-> tok.v[t][b] = self.PAD_IDX]]),
         b_mlm_label |-> lab]

-----------------------------------------------------------------------------
(* Texts: file paths and cache locations *)

DigitChars == <<"0", "1", "2", "3", "4", "5", "6", "7", "8", "9">>

(* str(n) for 0 <= n < 100, a character per chunk *)
StrInt(n) == IF n < 10 THEN <<At(DigitChars, n)>> ELSE <<At(DigitChars, n \div 10), At(DigitChars, n % 10)>>

(* str(rate)[2:] for a float in 0.0 .. 1.0 given in hundredths: "0.15" -> *)
(* "15", "0.8" -> "8", "0.05" -> "05", "1.0" -> "0", "0.0" -> "0"          *)
StrRateTail(rate) ==
    IF rate = 100 \/ rate = 0 THEN <<"0">>
    ELSE IF rate % 10 = 0 THEN <<At(DigitChars, rate \div 10)>>
    ELSE <<At(DigitChars, rate \div 10), At(DigitChars, rate % 10)>>

(* f"{self.max_sen_len}" *)
StrLen(m) == IF m.kind = "None" THEN <<"None">> ELSE IF m.kind = "same" THEN <<"same">> ELSE StrInt(m.n)

(* text.split('.') *)
RECURSIVE SplitDot(_, _, _)
SplitDot(text, i, cur) ==
    IF i > Len(text) THEN <<cur>>
    ELSE IF text[i] = "." THEN <<cur>> \o SplitDot(text, i + 1, <<>>)
    ELSE SplitDot(text, i + 1, Append(cur, text[i]))

(* The postfix of load_train_val_test_data *)
Postfix(self) ==
    <<"_ml">> \o StrLen(self.max_sen_len) \o <<"_rs">> \o StrInt(self.random_state)
        \o <<"_mr">> \o StrRateTail(self.masked_rate)
        \o <<"_mtr">> \o StrRateTail(self.masked_token_rate)
        \o <<"_mtur">> \o StrRateTail(self.masked_token_unchanged_rate)

(* data_path of cache.wrapper *)
DataPath(filepath, postfix) == At(SplitDot(filepath, 1, <<>>), 0) \o <<"_">> \o postfix \o <<".pt">>

-----------------------------------------------------------------------------
(* read_dnaseq and data_process *)

TestCsv == <<"test", ".", "csv">>

TestNoDot == <<"test">>

TrainCsv == <<"train", ".", "csv">>

ValCsv == <<"val", ".", "csv">>

(* pd.read_csv(filepath, header=None).to_numpy(): the rows of the table    *)
(* the file at filepath holds.                                             *)
ReadCsv(filepath) ==
    IF filepath = TestCsv THEN <<<<10, 1>>, <<0, 1>>>>
    ELSE IF filepath = TestNoDot THEN <<<<1, 1>>, <<1, 0>>>>
    ELSE IF filepath = TrainCsv THEN <<<<1, 0>>, <<0, 0>>>>
    ELSE <<<<0, 1>>>>

(* vec[start: start + max_len] *)
Slice(vec, start, stop) == SubSeq(vec, start + 1, Min(stop, Len(vec)))

RECURSIVE JoinStr(_)
JoinStr(v) == IF v = <<>> THEN <<>> ELSE StrInt(Head(v)) \o JoinStr(Tail(v))

(* vec2str *)
vec2str(vec, start, max_len) == JoinStr(Slice(vec, start, start + max_len))

(* The windows of read_dnaseq before they are shuffled *)
RECURSIVE Paragraphs(_, _, _, _)
Paragraphs(df, start, groups, max_len) ==
    IF groups = 0 THEN <<>>
    ELSE [k \in 1..Len(df) |-> vec2str(df[k], start, max_len)]
             \o Paragraphs(df, start + max_len, groups - 1, max_len)

(* read_dnaseq, the generator in state s: the windows and the state after *)
read_dnaseq(filepath, inital_site, number_of_group, max_len, s) ==
    LET paragraphs == Paragraphs(ReadCsv(filepath), inital_site, number_of_group, max_len)
        sh == ShuffleFromRng(Len(paragraphs) - 1, s, <<>>)
    IN  [paragraphs |-> ShuffleWith(paragraphs, Len(paragraphs) - 1, sh[1], 1), rng |-> sh[2]]

(* The random calls of replace_masked_tokens at n committed positions,     *)
(* the generator in state s: <<draws, s'>>                                 *)
RECURSIVE DrawsFromRng(_, _, _, _)
DrawsFromRng(self, n, s, draws) ==
    IF n = 0 THEN <<draws, s>>
    ELSE LET s1 == RngNext(s)
             s2 == RngNext(s1)
             s3 == RngNext(s2)
             t == [rand_t |-> RandomOf(s1), rand_u |-> 0, rand_id |-> 0]
             u == [t EXCEPT !.rand_u = RandomOf(s2)]
             r == [u EXCEPT !.rand_id = RandintOf(s3, 0, Cardinality(DOMAIN self.vocab.stoi) - 1)]
         IN  IF DrawsMask(self, t) THEN DrawsFromRng(self, n - 1, s1, Append(draws, t))
             ELSE IF DrawsRandomToken(self, u) THEN DrawsFromRng(self, n - 1, s3, Append(draws, r))
             ELSE DrawsFromRng(self, n - 1, s2, Append(draws, u))

(* get_masked_sample, the generator in state s *)
MaskedSampleFromRng(self, token_ids, s) ==
    LET cand == Candidates(self, token_ids, 0)
        sh == ShuffleFromRng(Len(cand) - 1, s, <<>>)
        dr == DrawsFromRng(self, Min(NumMlmPreds(self, token_ids), Len(cand)), sh[2], <<>>)
        r == get_masked_sample(self, token_ids, sh[1], dr[1])
    IN  [token_ids |-> r.mlm_input_tokens_id, mlm_label |-> r.mlm_label, rng |-> dr[2]]

(* The loop of data_process over the windows from the k-th on, and what   *)
(* data_process returns after it                                           *)
RECURSIVE ProcessLoop(_, _, _, _, _, _)
ProcessLoop(self, paragraphs, k, s, data, max_len) ==
    IF k > Len(paragraphs) THEN [raised |-> FALSE, data |-> data, max_len |-> max_len, rng |-> s]
    ELSE LET ids == [c \in 1..Len(paragraphs[k]) |-> GetItem(self.vocab, <<paragraphs[k][c]>>)]
             token_ids == IF Len(ids) > self.max_position_embeddings
                          THEN SubSeq(ids, 1, self.max_position_embeddings) ELSE ids
             m == MaskedSampleFromRng(self, token_ids, s)
         IN  ProcessLoop(self, paragraphs, k + 1, m.rng,
                         Append(data, <<m.token_ids, m.mlm_label>>),
                         Max(max_len, Len(m.token_ids)))

(* data_process from the windows rd that read_dnaseq returned.  The        *)
(* description of the progress bar takes filepath.split('.')[1]: an        *)
(* IndexError for a path with no dot, raised once read_dnaseq has shuffled.*)
ProcessParagraphs(self, filepath, rd) ==
    IF Len(SplitDot(filepath, 1, <<>>)) < 2
    THEN [raised |-> TRUE, data |-> <<>>, max_len |-> 0, rng |-> rd.rng]
    ELSE ProcessLoop(self, rd.paragraphs, 1, rd.rng, <<>>, 0)

(* The body of data_process, the generator in state s *)
data_process(self, filepath, s) ==
    ProcessParagraphs(self, filepath,
                      read_dnaseq(filepath, self.inital_site, self.number_of_group,
                                  self.max_position_embeddings, s))

(* What an artifact was built from: kept beside it for the properties, no  *)
(* part of what torch.save writes.                                         *)
Origin(self, filepath) ==
    [filepath |-> filepath,
     max_sen_len |-> self.max_sen_len,
     max_position_embeddings |-> self.max_position_embeddings,
     random_state |-> self.random_state,
     masked_rate |-> self.masked_rate,
     masked_token_rate |-> self.masked_token_rate,
     masked_token_unchanged_rate |-> self.masked_token_unchanged_rate]

NoArtifact == [data |-> <<>>, max_len |-> 0, origin |-> <<>>]

(* cache.wrapper on a miss, func having returned (or raised) r: the call's *)
(* record c completed, the disk and the generator after.                   *)
CacheMiss(c, d, r, origin) ==
    LET a == [data |-> r.data, max_len |-> r.max_len, origin |-> origin]
    IN  IF r.raised
        THEN [call |-> c @@ [hit |-> FALSE, raised |-> TRUE, wrote |-> FALSE,
                             result |-> NoArtifact, rng_after |-> r.rng, stored |-> FALSE],
              disk |-> d, rng |-> r.rng]
        ELSE [call |-> c @@ [hit |-> FALSE, raised |-> FALSE, wrote |-> TRUE,
                             result |-> a, rng_after |-> r.rng, stored |-> TRUE],
              disk |-> (c.data_path :> a) @@ d, rng |-> r.rng]

(* cache.wrapper around data_process, the disk holding d and the generator *)
(* in state s: the call's record, the disk and the generator after.        *)
cache(self, filepath, postfix, d, s) ==
    LET c == [self |-> self, filepath |-> filepath,
              data_path |-> DataPath(filepath, postfix), rng_before |-> s]
    IN  IF c.data_path \notin DOMAIN d
        THEN CacheMiss(c, d, data_process(self, filepath, s), Origin(self, filepath))
        ELSE [call |-> c @@ [hit |-> TRUE, raised |-> FALSE, wrote |-> FALSE,
                             result |-> d[c.data_path], rng_after |-> s, stored |-> TRUE],
              disk |-> d, rng |-> s]

(* load_train_val_test_data once val_data is there *)
LoadedVal(t, tr, v, max_sen_len) ==
    [calls |-> <<t.call, tr.call, v.call>>, disk |-> v.disk, rng |-> v.rng,
     max_sen_len |-> max_sen_len]

(* load_train_val_test_data once train_data is there: 'same' becomes the   *)
(* longest training sample, then the validation split is processed.        *)
LoadedTrain(self, val_file_path, postfix, t, tr) ==
    IF tr.call.raised
    THEN [calls |-> <<t.call, tr.call>>, disk |-> tr.disk, rng |-> tr.rng,
          max_sen_len |-> self.max_sen_len]
    ELSE LET max_sen_len == IF self.max_sen_len.kind = "same"
                            THEN IntLen(tr.call.result.max_len) ELSE self.max_sen_len
         IN  LoadedVal(t, tr,
                       cache([self EXCEPT !.max_sen_len = max_sen_len], val_file_path,
                             <<"val">> \o postfix, tr.disk, tr.rng),
                       max_sen_len)

(* load_train_val_test_data once test_data is there *)
LoadedTest(self, train_file_path, val_file_path, only_test, postfix, t) ==
    IF t.call.raised \/ only_test
    THEN [calls |-> <<t.call>>, disk |-> t.disk, rng |-> t.rng, max_sen_len |-> self.max_sen_len]
    ELSE LoadedTrain(self, val_file_path, postfix, t,
                     cache(self, train_file_path, <<"train">> \o postfix, t.disk, t.rng))

(* load_train_val_test_data: the calls it makes, the disk, the generator   *)
(* and self.max_sen_len after.  An exception of a call ends it.            *)
load_train_val_test_data(self, train_file_path, val_file_path, test_file_path, only_test, d, s) ==
    LoadedTest(self, train_file_path, val_file_path, only_test, Postfix(self),
               cache(self, test_file_path, <<"test">> \o Postfix(self), d, s))

-----------------------------------------------------------------------------
(* Inputs *)

(* The defaults of LoadDNADataset.__init__, but for a small               *)
(* max_position_embeddings and random_state.                               *)
BaseParams ==
    [pad_index |-> 0, max_sen_len |-> NoneLen, max_position_embeddings |-> 2,
     random_state |-> 1, masked_rate |-> 15, masked_token_rate |-> 80,
     masked_token_unchanged_rate |-> 50, inital_site |-> 0, number_of_group |-> 1]

TextOfLines(lines) == [k \in 1..(2 * Len(lines)) |-> IF k % 2 = 1 THEN lines[(k + 1) \div 2] ELSE NL]

(* Two vocabulary files: [PAD] on line 0, and a file with no [PAD] line *)
VocabFiles ==
    {TextOfLines(<<"[PAD]", "[UNK]", "[CLS]", "[SEP]", "[MASK]", "A">>),
     TextOfLines(<<"[UNK]", "[CLS]", "[SEP]", "[MASK]", "A">>)}

NoVocab == [stoi |-> <<>>, itos |-> <<>>]

NoLookup == [op |-> "none", vocab |-> NoVocab, token |-> <<>>, result |-> 0]

NoSample ==
    [called |-> FALSE, self |-> NewLoader(<<>>, BaseParams), token_ids |-> <<>>,
     mlm_input_tokens_id |-> <<>>, mlm_label |-> <<>>, pred_positions |-> <<>>]

NoTensor == Tensor(0, 0, <<>>)

NoDisk == <<>>

NoCall == <<>>

(* No evaluate() call yet: the model is in training mode *)
NoEval ==
    [pc |-> "idle", data_iter |-> <<>>, idx |-> 0, training |-> TRUE, error |-> "",
     mlm_corrects |-> 0, mlm_totals |-> 0, auc |-> 0, cnt |-> 0]

NoPc == <<>>

NoFile == <<>>

NoSeen == <<>>

NoBatch ==
    [called |-> FALSE, self |-> NewLoader(<<>>, BaseParams), data_batch |-> <<>>,
     b_token_ids |-> NoTensor, b_mask |-> NoTensor, b_mlm_label |-> NoTensor]

-----------------------------------------------------------------------------
(* Actions: the vocabulary, the masking engine, the collator *)

(* LoadDNADataset(...): the vocabulary is read, the reserved symbols are   *)
(* looked up and the process-wide generator is seeded.                     *)
LoaderInit(p) ==
    LET self == NewLoader(vocab_file, p)
    IN  /\ self \in loaders \/ Cardinality(loaders) < MaxLoaders
        /\ loaders' = loaders \cup {self}
        /\ rng' = Seed(p.random_state)
        /\ UNCHANGED <<vocab_file, lookup, sample, batch, disk, call, ev, pc, cfile, seen>>

(* self.vocab[token] *)
VocabGetItem(self, token) ==
    /\ lookup' = [op |-> "getitem", vocab |-> self.vocab, token |-> token,
                  result |-> GetItem(self.vocab, token)]
    /\ UNCHANGED <<vocab_file, loaders, rng, sample, batch, disk, call, ev, pc, cfile, seen>>

(* len(self.vocab) *)
VocabLenCall(self) ==
    /\ lookup' = [op |-> "len", vocab |-> self.vocab, token |-> <<>>,
                  result |-> VocabLen(self.vocab)]
    /\ UNCHANGED <<vocab_file, loaders, rng, sample, batch, disk, call, ev, pc, cfile, seen>>

(* The random calls replace_masked_tokens makes at one committed position: *)
(* rand_t always, rand_u when rand_t does not mask, rand_id when rand_u    *)
(* asks for a random token (0 stands for "not drawn").                     *)
DrawSet(self) ==
    {d \in [rand_t : 0..(RandDen - 1), rand_u : 0..(RandDen - 1),
            rand_id : 0..(Cardinality(DOMAIN self.vocab.stoi) - 1)] :
        /\ DrawsMask(self, d) => d.rand_u = 0
        /\ (DrawsMask(self, d) \/ ~DrawsRandomToken(self, d)) => d.rand_id = 0}

(* How many values of the generator one committed position consumes *)
DrawCount(self, d) == IF DrawsMask(self, d) THEN 1 ELSE IF DrawsRandomToken(self, d) THEN 3 ELSE 2

RECURSIVE SumDrawCount(_, _, _)
SumDrawCount(self, draws, n) ==
    IF n = 0 THEN 0 ELSE DrawCount(self, draws[n]) + SumDrawCount(self, draws, n - 1)

RECURSIVE RngAdvance(_, _)
RngAdvance(s, n) == IF n = 0 THEN s ELSE RngAdvance(RngNext(s), n - 1)

(* How many positions get_masked_sample commits *)
NumCommitted(self, token_ids) ==
    Min(NumMlmPreds(self, token_ids), Len(Candidates(self, token_ids, 0)))

(* self.get_masked_sample(token_ids), whatever the generator returns *)
GetMaskedSample(self, token_ids) ==
    \E js \in ShuffleDraws(Len(Candidates(self, token_ids, 0))) :
    \E draws \in [1..NumCommitted(self, token_ids) -> DrawSet(self)] :
        LET r == get_masked_sample(self, token_ids, js, draws)
        IN  /\ sample' = [called |-> TRUE, self |-> self, token_ids |-> token_ids,
                          mlm_input_tokens_id |-> r.mlm_input_tokens_id,
                          mlm_label |-> r.mlm_label,
                          pred_positions |-> r.pred_positions]
            /\ rng' = RngAdvance(rng, Len(js) + SumDrawCount(self, draws, Len(draws)))
            /\ UNCHANGED <<vocab_file, loaders, lookup, batch, disk, call, ev, pc, cfile, seen>>

(* data.append([token_ids, mlm_label]): the sample just made joins those   *)
(* a DataLoader will hand to the collate function.                         *)
Collect ==
    /\ sample.called
    /\ Len(batch.data_batch) < MaxBatch
    /\ batch' = [NoBatch EXCEPT !.data_batch =
                    Append(IF batch.called THEN <<>> ELSE batch.data_batch,
                           <<sample.mlm_input_tokens_id, sample.mlm_label>>)]
    /\ sample' = NoSample
    /\ UNCHANGED <<vocab_file, loaders, rng, lookup, disk, call, ev, pc, cfile, seen>>

(* self.generate_batch(data_batch) *)
GenerateBatch(self) ==
    /\ ~batch.called
    /\ batch.data_batch # <<>>
    /\ LET r == generate_batch(self, batch.data_batch)
       IN  batch' = [called |-> TRUE, self |-> self, data_batch |-> batch.data_batch,
                     b_token_ids |-> r.b_token_ids, b_mask |-> r.b_mask,
                     b_mlm_label |-> r.b_mlm_label]
    /\ UNCHANGED <<vocab_file, loaders, rng, lookup, sample, disk, call, ev, pc, cfile, seen>>

-----------------------------------------------------------------------------
(* The vocabulary alone: every short file *)

InitVocab ==
    /\ vocab_file \in SeqsUpTo(Chunks, MaxFileLen)
    /\ loaders = {}
    /\ rng = 0
    /\ lookup = NoLookup
    /\ sample = NoSample
    /\ batch = NoBatch
    /\ disk = NoDisk
    /\ call = NoCall
    /\ ev = NoEval
    /\ pc = NoPc
    /\ cfile = NoFile
    /\ seen = NoSeen

(* The symbols code looks up: a character of a window, a reserved symbol,  *)
(* a word of the vocabulary                                                *)
LookupTokens(self) ==
    {<<c>> : c \in Chunks \ {NL}} \cup {self.vocab.itos[k] : k \in 1..Len(self.vocab.itos)}

NextVocab ==
    \/ LoaderInit(BaseParams)
    \/ \E self \in loaders : \E token \in LookupTokens(self) : VocabGetItem(self, token)
    \/ \E self \in loaders : VocabLenCall(self)

SpecVocab == InitVocab /\ [][NextVocab]_vars

-----------------------------------------------------------------------------
(* The masking engine *)

MaskParams ==
    {BaseParams,
     [BaseParams EXCEPT !.masked_rate = 75, !.masked_token_rate = 50,
                        !.masked_token_unchanged_rate = 25]}

(* The token ids a sequence may hold: the indices of the vocabulary *)
TokenIds(content) == 0..(VocabLen(build_vocab(content)) - 1)

InitMask ==
    /\ vocab_file \in VocabFiles
    /\ loaders = {}
    /\ rng = 0
    /\ lookup = NoLookup
    /\ \E token_ids \in SeqsUpTo(TokenIds(vocab_file), MaxSeqLen) :
           sample = [NoSample EXCEPT !.token_ids = token_ids]
    /\ batch = NoBatch
    /\ disk = NoDisk
    /\ call = NoCall
    /\ ev = NoEval
    /\ pc = NoPc
    /\ cfile = NoFile
    /\ seen = NoSeen

NextMask ==
    \/ \E p \in MaskParams : LoaderInit(p)
    \/ \E self \in loaders : ~sample.called /\ GetMaskedSample(self, sample.token_ids)

SpecMask == InitMask /\ [][NextMask]_vars

-----------------------------------------------------------------------------
(* The collator, on samples of the masking engine *)

BatchParams ==
    {[BaseParams EXCEPT !.masked_token_rate = 100, !.masked_rate = 50, !.max_sen_len = m] :
        m \in {NoneLen, IntLen(MaxFixedLen)}}

(* The tokens of a window of the one character "A" *)
BatchTokenIds(self) == {GetItem(self.vocab, <<"A">>)}

NextBatch ==
    \/ \E p \in BatchParams : LoaderInit(p)
    \/ \E self \in loaders : \E token_ids \in SeqsUpTo(BatchTokenIds(self), MaxBatchSeqLen) :
           ~sample.called /\ GetMaskedSample(self, token_ids)
    \/ Collect
    \/ \E self \in loaders : GenerateBatch(self)

InitBatch ==
    /\ vocab_file \in VocabFiles
    /\ loaders = {}
    /\ rng = 0
    /\ lookup = NoLookup
    /\ sample = NoSample
    /\ batch = NoBatch
    /\ disk = NoDisk
    /\ call = NoCall
    /\ ev = NoEval
    /\ pc = NoPc
    /\ cfile = NoFile
    /\ seen = NoSeen

SpecBatch == InitBatch /\ [][NextBatch]_vars

-----------------------------------------------------------------------------
(* Properties of the masking engine *)

(* The positions of the last sample's input that hold neither [CLS] nor [SEP] *)
Eligible ==
    {k \in 1..Len(sample.token_ids) :
        sample.token_ids[k] \notin {sample.self.CLS_IDX, sample.self.SEP_IDX}}

(* max(1, round(len(token_ids) * masked_rate)) for the last sample *)
WantedPreds == Max(1, PyRound(Len(sample.token_ids), sample.self.masked_rate))

NonPadLabels == {k \in 1..Len(sample.mlm_label) : sample.mlm_label[k] # sample.self.PAD_IDX}

Committed == {sample.pred_positions[k] + 1 : k \in 1..Len(sample.pred_positions)}

(* C1, as claimed: a sequence with an eligible position gets exactly       *)
(* min(max(1, round(len * masked_rate)), eligible) labels other than       *)
(* PAD_IDX, whatever the draws.                                            *)
C1_LabelCount ==
    (sample.called /\ Eligible # {}) =>
        Cardinality(NonPadLabels) = Min(WantedPreds, Cardinality(Eligible))

(* C1, amended: exactly min(max(1, round(len * masked_rate)), eligible)    *)
(* positions are committed, and the labels other than PAD_IDX are those of *)
(* the committed positions whose original token is not PAD_IDX: as many as *)
(* claimed when the sequence holds no token equal to PAD_IDX.              *)
C1_LabelCountSavePad ==
    (sample.called /\ Eligible # {}) =>
        /\ Cardinality(Committed) = Min(WantedPreds, Cardinality(Eligible))
        /\ NonPadLabels = {k \in Committed : sample.token_ids[k] # sample.self.PAD_IDX}
        /\ (\A k \in 1..Len(sample.token_ids) : sample.token_ids[k] # sample.self.PAD_IDX)
               => Cardinality(NonPadLabels) = Min(WantedPreds, Cardinality(Eligible))

(* C1's case: fewer eligible positions than wanted, no PAD_IDX token *)
C1_Witness ==
    /\ sample.called
    /\ Eligible # {}
    /\ Cardinality(Eligible) < WantedPreds
    /\ \A k \in 1..Len(sample.token_ids) : sample.token_ids[k] # sample.self.PAD_IDX
    /\ Cardinality(NonPadLabels) = Cardinality(Eligible)

(* C2: outputs as long as the input; at a committed index the label is the *)
(* original token and the corrupted token is the original, [MASK] or an id *)
(* in [0, vocab_size); elsewhere the token is the original and the label   *)
(* is PAD_IDX.                                                             *)
C2_SampleShape ==
    sample.called =>
        /\ Len(sample.mlm_input_tokens_id) = Len(sample.token_ids)
        /\ Len(sample.mlm_label) = Len(sample.token_ids)
        /\ \A k \in 1..Len(sample.token_ids) :
              IF k \in Committed
              THEN /\ sample.mlm_label[k] = sample.token_ids[k]
                   /\ \/ sample.mlm_input_tokens_id[k] = sample.token_ids[k]
                      \/ sample.mlm_input_tokens_id[k] = sample.self.MASK_IDS
                      \/ sample.mlm_input_tokens_id[k] \in 0..(VocabLen(sample.self.vocab) - 1)
              ELSE /\ sample.mlm_input_tokens_id[k] = sample.token_ids[k]
                   /\ sample.mlm_label[k] = sample.self.PAD_IDX

(* C2's case: one position replaced by a random token, another left alone *)
C2_Witness ==
    /\ sample.called
    /\ \E k \in Committed :
          /\ sample.mlm_input_tokens_id[k] \notin {sample.token_ids[k], sample.self.MASK_IDS}
          /\ sample.mlm_label[k] # sample.self.PAD_IDX
    /\ \E k \in 1..Len(sample.token_ids) : k \notin Committed

-----------------------------------------------------------------------------
(* Properties of the collator *)

(* The target length of the last batch: fixed_len, else the longest sample *)
TargetLen ==
    IF batch.self.max_sen_len.kind = "int" THEN batch.self.max_sen_len.n
    ELSE LET lens == {Len(batch.data_batch[b][1]) : b \in 1..Len(batch.data_batch)}
         IN  CHOOSE m \in lens : \A n \in lens : n <= m

(* Column b of tensor x is seq cut to T, then pad_value *)
ColumnIs(x, b, seq, T, pad_value) ==
    \A t \in 1..T : x.v[t][b] = IF t <= Len(seq) THEN seq[t] ELSE pad_value

(* C3: tokens and labels of a batch have shape [T, batch size], and each   *)
(* column is its sample's first min(len, T) elements, then pad_value.      *)
C3_Collate ==
    batch.called =>
        /\ batch.b_token_ids.rows = TargetLen
        /\ batch.b_token_ids.cols = Len(batch.data_batch)
        /\ batch.b_mlm_label.rows = batch.b_token_ids.rows
        /\ batch.b_mlm_label.cols = batch.b_token_ids.cols
        /\ \A b \in 1..Len(batch.data_batch) :
              /\ ColumnIs(batch.b_token_ids, b, batch.data_batch[b][1], TargetLen, batch.self.PAD_IDX)
              /\ ColumnIs(batch.b_mlm_label, b, batch.data_batch[b][2], TargetLen, batch.self.PAD_IDX)

(* C3's case: a batch with a sample longer than T and one shorter *)
C3_Witness ==
    /\ batch.called
    /\ \E b \in 1..Len(batch.data_batch) : Len(batch.data_batch[b][1]) > TargetLen
    /\ \E b \in 1..Len(batch.data_batch) : Len(batch.data_batch[b][1]) < TargetLen

-----------------------------------------------------------------------------
(* Properties of the vocabulary *)

(* The indices of the last looked-up token in itos *)
IndicesOfToken == {i \in 0..(Len(lookup.vocab.itos) - 1) : At(lookup.vocab.itos, i) = lookup.token}

(* C4, as claimed: looking up the symbol at itos[i] returns i *)
C4_RoundTrip ==
    lookup.op = "getitem" => \A i \in IndicesOfToken : lookup.result = i

(* C4, amended: looking up the symbol at itos[i] returns the index of the  *)
(* last line that holds it: i, unless the symbol is on a later line too.   *)
C4_RoundTripLastLine ==
    (lookup.op = "getitem" /\ IndicesOfToken # {}) =>
        /\ lookup.result \in IndicesOfToken
        /\ \A i \in IndicesOfToken : i <= lookup.result

(* C4's case: a symbol on two lines looked up *)
C4_Witness ==
    /\ lookup.op = "getitem"
    /\ Cardinality(IndicesOfToken) > 1
    /\ lookup.result \in IndicesOfToken

Reserved == {<<"[UNK]">>, <<"[CLS]">>, <<"[SEP]">>, <<"[MASK]">>}

(* C7: no builder is constructed on a vocabulary that lacks a reserved     *)
(* symbol, and no lookup returns anything but an integer id.               *)
C7_MissingReservedIsFatal ==
    /\ \A self \in loaders : Reserved \subseteq DOMAIN self.vocab.stoi
    /\ lookup.op = "getitem" => lookup.result # NoneIdx

-----------------------------------------------------------------------------
(* The cache around data_process, over runs of the program *)

DnaVocabFile == TextOfLines(<<"[PAD]", "[UNK]", "[CLS]", "[SEP]", "[MASK]", "0", "1">>)

CacheParams ==
    {[BaseParams EXCEPT !.max_position_embeddings = n] : n \in 1..MaxPosEmb}
        \cup {[BaseParams EXCEPT !.max_sen_len = SameLen]}

(* self.load_train_val_test_data(TrainCsv, ValCsv, test_file_path, only_test) *)
LoadTrainValTestData(self, test_file_path, only_test) ==
    LET r == load_train_val_test_data(self, TrainCsv, ValCsv, test_file_path, only_test, disk, rng)
    IN  /\ call' = r.calls
        /\ disk' = r.disk
        /\ rng' = r.rng
        /\ loaders' = (loaders \ {self}) \cup {[self EXCEPT !.max_sen_len = r.max_sen_len]}
        /\ UNCHANGED <<vocab_file, lookup, sample, batch, ev, pc, cfile, seen>>

(* The program ends and is run again: what is on disk stays, the instances *)
(* and the seeding of the generator go.                                    *)
Restart ==
    /\ loaders # {}
    /\ loaders' = {}
    /\ rng' = 0
    /\ call' = <<>>
    /\ UNCHANGED <<vocab_file, lookup, sample, batch, disk, ev, pc, cfile, seen>>

InitCache ==
    /\ vocab_file = DnaVocabFile
    /\ loaders = {}
    /\ rng = 0
    /\ lookup = NoLookup
    /\ sample = NoSample
    /\ batch = NoBatch
    /\ disk = NoDisk
    /\ call = NoCall
    /\ ev = NoEval
    /\ pc = NoPc
    /\ cfile = NoFile
    /\ seen = NoSeen

NextCache ==
    \/ \E p \in CacheParams : LoaderInit(p)
    \/ \E self \in loaders : \E test_file_path \in {TestCsv, TestNoDot} : \E only_test \in BOOLEAN :
           LoadTrainValTestData(self, test_file_path, only_test)
    \/ Restart

SpecCache == InitCache /\ [][NextCache]_vars

(* C5: a data_process call that finds an artifact at its location returns  *)
(* it verbatim, draws nothing from the generator and writes nothing; one   *)
(* that finds none runs the build, stores the result there and returns it. *)
C5_HitOrBuild ==
    \A k \in 1..Len(call) :
        IF call[k].hit
        THEN /\ ~call[k].raised
             /\ ~call[k].wrote
             /\ call[k].rng_after = call[k].rng_before
        ELSE /\ ~call[k].raised
             /\ call[k].wrote
             /\ call[k].stored
             /\ call[k].data_path \in DOMAIN disk
             /\ disk[call[k].data_path] = call[k].result

(* C6: no call returns an artifact built from another source file or under *)
(* other parameters than its own.                                          *)
C6_KeySeparatesBuilds ==
    \A k \in 1..Len(call) :
        (~call[k].raised) => call[k].result.origin = Origin(call[k].self, call[k].filepath)

(* C8: what data_process builds on a miss is what it builds when called    *)
(* right after the construction of its builder.                            *)
C8_BuildReproducible ==
    \A k \in 1..Len(call) :
        (~call[k].hit /\ ~call[k].raised) =>
            call[k].result.data =
                data_process(call[k].self, call[k].filepath, Seed(call[k].self.random_state)).data

-----------------------------------------------------------------------------
(* accuracy, roc_auc and evaluate.  A batch is the masked-label and the    *)
(* argmax-of-logits vectors, flattened, and the value roc_auc_score gives  *)
(* for its logits where it gives one (0 or 1 here).                        *)


(* accuracy: (mlm_correct, mlm_total), or ZeroDivisionError when no label  *)
(* differs from PAD_IDX                                                    *)
accuracy(b, PAD_IDX) ==
    LET mask == {k \in 1..Len(b.labels) : b.labels[k] # PAD_IDX}
        mlm_correct == Cardinality({k \in mask : b.preds[k] = b.labels[k]})
        mlm_total == Cardinality(mask)
    IN  [raised |-> mlm_total = 0,
         mlm_correct |-> mlm_correct,
         mlm_total |-> mlm_total]

(* roc_auc: roc_auc_score on the one-hot labels with the first NumSpecial  *)
(* columns dropped raises ValueError unless every remaining column holds   *)
(* both a 1 and a 0 among the rows whose label is not PAD_IDX.             *)
roc_auc(b, vocab_size, PAD_IDX) ==
    LET rows == {k \in 1..Len(b.labels) : b.labels[k] # PAD_IDX}
        defined == \A c \in NumSpecial..(vocab_size - 1) :
                       /\ \E k \in rows : b.labels[k] = c
                       /\ \E k \in rows : b.labels[k] # c
    IN  [raised |-> ~defined, auc |-> b.auc]

(* evaluate, to the loop: model.eval() and the counters *)
EvaluateCall ==
    /\ ev.pc = "idle"
    /\ ev' = [ev EXCEPT !.pc = "loop", !.training = FALSE]
    /\ UNCHANGED <<vocab_file, loaders, rng, lookup, sample, batch, disk, call, pc, cfile, seen>>

(* One pass of the loop of evaluate: an exception of accuracy or roc_auc   *)
(* leaves evaluate at once.                                                *)
EvaluateBatch ==
    /\ ev.pc = "loop"
    /\ ev.idx < Len(ev.data_iter)
    /\ LET b == At(ev.data_iter, ev.idx)
           acc == accuracy(b, 0)
           a == roc_auc(b, EvalVocabSize, 0)
       IN  ev' = IF acc.raised THEN [ev EXCEPT !.pc = "raised", !.error = "ZeroDivisionError"]
                 ELSE IF a.raised
                 THEN [ev EXCEPT !.pc = "raised", !.error = "ValueError",
                                 !.mlm_corrects = @ + acc.mlm_correct,
                                 !.mlm_totals = @ + acc.mlm_total]
                 ELSE [ev EXCEPT !.idx = @ + 1,
                                 !.mlm_corrects = @ + acc.mlm_correct,
                                 !.mlm_totals = @ + acc.mlm_total,
                                 !.auc = @ + a.auc,
                                 !.cnt = @ + 1]
    /\ UNCHANGED <<vocab_file, loaders, rng, lookup, sample, batch, disk, call, pc, cfile, seen>>

(* The end of evaluate: model.train(), then the two quotients *)
EvaluateReturn ==
    /\ ev.pc = "loop"
    /\ ev.idx = Len(ev.data_iter)
    /\ ev' = IF ev.mlm_totals = 0 \/ ev.cnt = 0
             THEN [ev EXCEPT !.pc = "raised", !.error = "ZeroDivisionError", !.training = TRUE]
             ELSE [ev EXCEPT !.pc = "returned", !.training = TRUE]
    /\ UNCHANGED <<vocab_file, loaders, rng, lookup, sample, batch, disk, call, pc, cfile, seen>>

EvalLabels == {0} \cup (NumSpecial..(EvalVocabSize - 1))

EvalBatches ==
    [labels : [1..BatchTokens -> EvalLabels],
     preds : [1..BatchTokens -> NumSpecial..(EvalVocabSize - 1)],
     auc : {0, 1}]

InitEval ==
    /\ vocab_file = DnaVocabFile
    /\ loaders = {}
    /\ rng = 0
    /\ lookup = NoLookup
    /\ sample = NoSample
    /\ batch = NoBatch
    /\ disk = NoDisk
    /\ call = NoCall
    /\ \E data_iter \in SeqsUpTo(EvalBatches, MaxBatches) : ev = [NoEval EXCEPT !.data_iter = data_iter]
    /\ pc = NoPc
    /\ cfile = NoFile
    /\ seen = NoSeen

NextEval ==
    \/ EvaluateCall
    \/ EvaluateBatch
    \/ EvaluateReturn

SpecEval == InitEval /\ [][NextEval]_vars

(* C9: a batch whose AUC cannot be computed does not end evaluate: it goes *)
(* on, puts the model back in training mode and returns.                   *)
C9_AucFailureNotFatal ==
    ~(ev.pc = "raised" /\ ev.error = "ValueError")

-----------------------------------------------------------------------------
(* cache.wrapper run by several processes on one cache location *)

Procs == 1..NumProcs

(* if not os.path.exists(data_path) *)
Exists(q) ==
    /\ pc[q] = "start"
    /\ pc' = [pc EXCEPT ![q] = IF cfile.state = "absent" THEN "build" ELSE "load"]
    /\ UNCHANGED <<vocab_file, loaders, rng, lookup, sample, batch, disk, call, ev, cfile, seen>>

(* data = func(...): the build *)
Build(q) ==
    /\ pc[q] = "build"
    /\ pc' = [pc EXCEPT ![q] = "open"]
    /\ UNCHANGED <<vocab_file, loaders, rng, lookup, sample, batch, disk, call, ev, cfile, seen>>

(* open(data_path, 'wb'): the file is created, or emptied *)
OpenWrite(q) ==
    /\ pc[q] = "open"
    /\ cfile' = [state |-> "empty", by |-> q]
    /\ pc' = [pc EXCEPT ![q] = "save"]
    /\ UNCHANGED <<vocab_file, loaders, rng, lookup, sample, batch, disk, call, ev, seen>>

(* torch.save(data, f), and the return of the data built *)
Save(q) ==
    /\ pc[q] = "save"
    /\ cfile' = [state |-> "complete", by |-> q]
    /\ seen' = [seen EXCEPT ![q] = [state |-> "built", by |-> q]]
    /\ pc' = [pc EXCEPT ![q] = "done"]
    /\ UNCHANGED <<vocab_file, loaders, rng, lookup, sample, batch, disk, call, ev>>

(* open(data_path, 'rb') and torch.load(f): what is in the file now *)
Load(q) ==
    /\ pc[q] = "load"
    /\ seen' = [seen EXCEPT ![q] = cfile]
    /\ pc' = [pc EXCEPT ![q] = "done"]
    /\ UNCHANGED <<vocab_file, loaders, rng, lookup, sample, batch, disk, call, ev, cfile>>

InitRace ==
    /\ vocab_file = DnaVocabFile
    /\ loaders = {}
    /\ rng = 0
    /\ lookup = NoLookup
    /\ sample = NoSample
    /\ batch = NoBatch
    /\ disk = NoDisk
    /\ call = NoCall
    /\ ev = NoEval
    /\ pc = [q \in Procs |-> "start"]
    /\ cfile = [state |-> "absent", by |-> 0]
    /\ seen = [q \in Procs |-> [state |-> "nothing", by |-> 0]]

NextRace ==
    \E q \in Procs :
        \/ Exists(q)
        \/ Build(q)
        \/ OpenWrite(q)
        \/ Save(q)
        \/ Load(q)

SpecRace == InitRace /\ [][NextRace]_vars

(* C10: no process loads the cache file before its write has completed *)
C10_NoPartialLoad ==
    \A q \in Procs : seen[q].state \in {"nothing", "built", "complete"}

=============================================================================
